---- MODULE Spec2Model ----
(***************************************************************************)
(* mvv: move a file or a directory tree, resuming partially written        *)
(* destination files, with a bounded number of concurrent transfers.       *)
(* Model of src/src/main.rs: move_file (one task per regular file) and     *)
(* main (walk, spawn, await, cleanup).                                     *)
(***************************************************************************)
EXTENDS Integers, Sequences, FiniteSets, TLC

\* ---------------------------------------------------------------- bounds
\* Largest number of walk entries below the root directory (files, symlinks).
MaxEntries == 2
\* Largest concurrency limit tried (args[3]); 0 is accepted by the parse.
MaxCap == 2
\* Largest buf_size tried; the chunk of the detector is buf_size / 2.
MaxBuf == 4
\* Longest file content of the single-file runs.
MaxLen == 3
\* Longest file content of the directory runs.
MaxLenTree == 1
\* The byte values file contents are drawn from.
Bytes == {0, 1}

\* Walk indexes: the root (or the single file) is entry 1.
Files == 1..(MaxEntries + 1)

Min(a, b) == IF a <= b THEN a ELSE b
Max(a, b) == IF a >= b THEN a ELSE b

VARIABLES
  \* run configuration
  entries,      \* what WalkDir yields, in order: "dir", "file", "symlink", "error"
  srcIsFile,    \* src_path.is_file() at start
  capacity,     \* paralleled_jobs
  bufSize,      \* buf_size handed to move_file
  \* semaphore
  available,    \* permits left in the Semaphore
  \* file system
  srcData,      \* content of each source file
  srcAt,        \* "present", or who removed it: "task", "engine", "external"
  dstExists,    \* destination file exists
  dstData,      \* content of each destination file
  dst0Exists,   \* destination file existed before the run
  dst0Data,     \* its content before the run
  dirMade,      \* create_dir_all(dest parent) was done by the task
  links,        \* walk indexes of the symlinks still in the source tree
  rootAt,       \* the top-level source directory: "present", "engine", "none"
  \* move_file, per task
  pc,           \* position of each task
  outcome,      \* "none", "Success", "Failure"
  read,         \* the detector's matched-byte counter
  srcOff,       \* bytes consumed from the source by the detector
  dstOff,       \* bytes consumed from the destination by the detector
  progPos,      \* progress bar position
  diverged,     \* the detector has compared two differing bytes
  initOffset,   \* init_offset
  copyPos,      \* cursor of both files in the copy phase
  \* main
  engine,       \* "walk", "await", "cleanup", "exit"
  walkIdx,      \* next entry of the walk
  tasks,        \* walk indexes of the spawned tasks, in spawn order
  awaitIdx,     \* next task to await
  incomplete,   \* incomplete
  warned,       \* walk indexes a symlink warning was printed for
  reported,     \* tasks whose error was printed
  result        \* "none", "ok", "enum_error", "incomplete", "cleanup_error"

cfgVars == <<entries, srcIsFile, capacity, bufSize, srcData, dst0Exists, dst0Data>>
fsVars == <<srcAt, dstExists, dstData, dirMade, links, rootAt>>
detVars == <<read, srcOff, dstOff, progPos, diverged, initOffset>>
taskVars == <<pc, outcome, copyPos>>
mainVars == <<engine, walkIdx, tasks, awaitIdx, incomplete, warned, reported, result>>
vars == <<cfgVars, available, fsVars, detVars, taskVars, mainVars>>

\* ------------------------------------------------------------ pure helpers
SeqsUpTo(n) == UNION {[1..k -> Bytes] : k \in 0..n}

\* A file pair: the source content and the destination before the run.
Pairs(n) == [src : SeqsUpTo(n), dex : {TRUE}, dst : SeqsUpTo(n)]
              \cup [src : SeqsUpTo(n), dex : {FALSE}, dst : {<<>>}]

\* Length of the longest common prefix of two byte sequences.
RECURSIVE LCP(_, _)
LCP(a, b) ==
  IF a = <<>> \/ b = <<>> \/ Head(a) # Head(b) THEN 0
  ELSE 1 + LCP(Tail(a), Tail(b))

\* Walk indexes of the regular files.
FileIdx(es) == {i \in 1..Len(es) : es[i] = "file"}

SymlinkIdx(es) == {i \in 1..Len(es) : es[i] = "symlink"}

\* Walks of a directory: the root, then files and symlinks; an error ends a walk.
TreeTails(n) ==
  UNION {[1..k -> {"file", "symlink", "error"}] : k \in 0..n}

TreeShapes(maxEntries) ==
  {<<"dir">> \o t : t \in
     {t \in TreeTails(maxEntries) :
        \A i \in 1..Len(t) : t[i] = "error" => i = Len(t)}}

\* ------------------------------------------------------------------- Init
InitRun(sh, isFile, cap, buf, p) ==
  LET isF(f) == f \in FileIdx(sh) IN
  /\ entries = sh
  /\ srcIsFile = isFile
  /\ capacity = cap
  /\ bufSize = buf
  /\ available = cap
  /\ srcData = [f \in Files |-> IF isF(f) THEN p.src ELSE <<>>]
  /\ srcAt = [f \in Files |-> IF isF(f) THEN "present" ELSE "unused"]
  /\ dstExists = [f \in Files |-> isF(f) /\ p.dex]
  /\ dstData = [f \in Files |-> IF isF(f) THEN p.dst ELSE <<>>]
  /\ dst0Exists = [f \in Files |-> isF(f) /\ p.dex]
  /\ dst0Data = [f \in Files |-> IF isF(f) THEN p.dst ELSE <<>>]
  /\ dirMade = [f \in Files |-> FALSE]
  /\ links = SymlinkIdx(sh)
  /\ rootAt = IF isFile THEN "none" ELSE "present"
  /\ pc = [f \in Files |-> "idle"]
  /\ outcome = [f \in Files |-> "none"]
  /\ read = [f \in Files |-> 0]
  /\ srcOff = [f \in Files |-> 0]
  /\ dstOff = [f \in Files |-> 0]
  /\ progPos = [f \in Files |-> 0]
  /\ diverged = [f \in Files |-> FALSE]
  /\ initOffset = [f \in Files |-> 0]
  /\ copyPos = [f \in Files |-> 0]
  /\ engine = "walk"
  /\ walkIdx = 1
  /\ tasks = <<>>
  /\ awaitIdx = 1
  /\ incomplete = FALSE
  /\ warned = {}
  /\ reported = {}
  /\ result = "none"

\* A directory source: small files of one content, any concurrency limit.
InitTree ==
  \E sh \in TreeShapes(MaxEntries), cap \in 0..MaxCap :
    \E p \in Pairs(MaxLenTree) :
      InitRun(sh, FALSE, cap, MaxBuf, p)

\* A single-file source: every content pair, every buffer size.
InitFile ==
  \E buf \in 2..MaxBuf, p \in Pairs(MaxLen) :
    InitRun(<<"file">>, TRUE, 1, buf, p)

Init == InitTree \/ InitFile

\* ------------------------------------------------------------- move_file
IOPhase == {"start", "mkdir", "probe", "detect", "open", "copy", "remove"}

\* The process is alive: main has not returned.
Alive == engine # "exit"

\* An acquire that does not wait for a permit.
AcquireNoWait(f) ==
  /\ Alive
  /\ pc[f] = "waiting"
  /\ available' = available - 1
  /\ pc' = [pc EXCEPT ![f] = "start"]
  /\ UNCHANGED <<cfgVars, fsVars, detVars, outcome, copyPos, mainVars>>

\* let _guard = permits.acquire().await?
Acquire(f) ==
  /\ Alive
  /\ pc[f] = "waiting"
  /\ available > 0
  /\ available' = available - 1
  /\ pc' = [pc EXCEPT ![f] = "start"]
  /\ UNCHANGED <<cfgVars, fsVars, detVars, outcome, copyPos, mainVars>>

\* The task returns: the outcome is set and _guard is dropped.
Return(f, res) ==
  /\ pc' = [pc EXCEPT ![f] = "done"]
  /\ outcome' = [outcome EXCEPT ![f] = res]
  /\ available' = available + 1

\* An existence check placed after the creation of the parent directories.
CheckSourceAfterMkdir(f) ==
  /\ Alive
  /\ pc[f] = "start"
  /\ IF srcAt[f] = "present"
     THEN /\ pc' = [pc EXCEPT ![f] = "mkdir"]
          /\ UNCHANGED <<outcome, available, dirMade>>
     ELSE /\ Return(f, "Failure")
          /\ dirMade' = [dirMade EXCEPT ![f] = TRUE]
  /\ UNCHANGED <<cfgVars, srcAt, dstExists, dstData, links, rootAt,
                 detVars, copyPos, mainVars>>

\* if !std::fs::exists(&src_path)? { return Err(..) }
CheckSource(f) ==
  /\ Alive
  /\ pc[f] = "start"
  /\ IF srcAt[f] = "present"
     THEN /\ pc' = [pc EXCEPT ![f] = "mkdir"]
          /\ UNCHANGED <<outcome, available>>
     ELSE Return(f, "Failure")
  /\ UNCHANGED <<cfgVars, fsVars, detVars, copyPos, mainVars>>

\* A create_dir_all that may run before the task holds a permit.
MakeDirsBeforeAcquire(f) ==
  /\ Alive
  /\ pc[f] \in {"waiting", "mkdir"}
  /\ dirMade' = [dirMade EXCEPT ![f] = TRUE]
  /\ pc' = [pc EXCEPT ![f] = IF @ = "mkdir" THEN "probe" ELSE @]
  /\ UNCHANGED <<cfgVars, available, srcAt, dstExists, dstData, links, rootAt,
                 detVars, outcome, copyPos, mainVars>>

\* tokio::fs::create_dir_all(dest_parent_path).await?
MakeDirs(f) ==
  /\ Alive
  /\ pc[f] = "mkdir"
  /\ dirMade' = [dirMade EXCEPT ![f] = TRUE]
  /\ pc' = [pc EXCEPT ![f] = "probe"]
  /\ UNCHANGED <<cfgVars, available, srcAt, dstExists, dstData, links, rootAt,
                 detVars, outcome, copyPos, mainVars>>

\* let buf_size = buf_size / 2
ChunkSize == bufSize \div 2

\* let min_size = src_size.min(dest_size)
MinSize(f) == Min(Len(srcData[f]), Len(dstData[f]))

\* if std::fs::exists(&dest_path)? { open both, sizes, read = 0, ... } else { 0 }
ProbeDest(f) ==
  /\ Alive
  /\ pc[f] = "probe"
  /\ IF dstExists[f] /\ MinSize(f) # 0
     THEN /\ pc' = [pc EXCEPT ![f] = "detect"]
          /\ read' = [read EXCEPT ![f] = 0]
          /\ UNCHANGED initOffset
     ELSE /\ pc' = [pc EXCEPT ![f] = "open"]
          /\ initOffset' = [initOffset EXCEPT ![f] = 0]
          /\ UNCHANGED read
  /\ UNCHANGED <<cfgVars, available, fsVars, srcOff, dstOff, progPos, diverged,
                 outcome, copyPos, mainVars>>

\* What file.read(&mut buf[..n]) may return with `left` bytes before the end:
\* 0 only at the end (or for an empty buffer), else any count up to n.
ReadResults(n, left) ==
  IF Min(n, left) <= 0 THEN {0} ELSE 1..Min(n, left)

\* for (&x, &y) in zip { if x != y { break; } read += 1; }: the matching run.
RECURSIVE MatchRun(_, _, _)
MatchRun(a, b, i) ==
  IF i > Len(a) \/ i > Len(b) THEN 0
  ELSE IF a[i] # b[i] THEN 0
  ELSE 1 + MatchRun(a, b, i + 1)

\* The counter after the comparison of one pair of aligned buffers.
AdvanceWholeChunk(r, a, b) == r + MatchRun(a, b, 1) * Len(a)
Advance(r, a, b) == r + MatchRun(a, b, 1)

\* One iteration of `while read < min_size`.
DetectStep(f) ==
  /\ Alive
  /\ pc[f] = "detect"
  /\ LET s == srcData[f]
         d == dstData[f]
         readMax == Min(ChunkSize, MinSize(f) - read[f])
         srcLeft == Len(s) - srcOff[f]
         dstLeft == Len(d) - dstOff[f]
     IN \E cs \in ReadResults(readMax, srcLeft), cd \in ReadResults(readMax, dstLeft) :
          LET m == Max(cs, cd)
              srcEof == cs < cd /\ srcLeft < cd
              dstEof == cs > cd /\ dstLeft < cs
          IN IF srcEof \/ dstEof
             THEN \* read_exact hit UnexpectedEof: break
                  /\ srcOff' = [srcOff EXCEPT ![f] = IF srcEof THEN Len(s) ELSE @ + cs]
                  /\ dstOff' = [dstOff EXCEPT ![f] = IF dstEof THEN Len(d) ELSE @ + cd]
                  /\ initOffset' = [initOffset EXCEPT ![f] = read[f]]
                  /\ pc' = [pc EXCEPT ![f] = "open"]
                  /\ UNCHANGED <<read, progPos, diverged>>
             ELSE LET a == SubSeq(s, srcOff[f] + 1, srcOff[f] + m)
                      b == SubSeq(d, dstOff[f] + 1, dstOff[f] + m)
                      r == Advance(read[f], a, b)
                  IN /\ read' = [read EXCEPT ![f] = r]
                     /\ srcOff' = [srcOff EXCEPT ![f] = @ + m]
                     /\ dstOff' = [dstOff EXCEPT ![f] = @ + m]
                     /\ progPos' = [progPos EXCEPT ![f] = @ + m]
                     /\ diverged' = [diverged EXCEPT ![f] = @ \/ MatchRun(a, b, 1) < m]
                     /\ IF r < MinSize(f)
                        THEN UNCHANGED <<pc, initOffset>>
                        ELSE /\ pc' = [pc EXCEPT ![f] = "open"]
                             /\ initOffset' = [initOffset EXCEPT ![f] = r]
  /\ UNCHANGED <<cfgVars, available, fsVars, outcome, copyPos, mainVars>>

\* Open the source, seek; open the destination with create(true).write(true), seek.
OpenSeek(f) ==
  /\ Alive
  /\ pc[f] = "open"
  /\ dstExists' = [dstExists EXCEPT ![f] = TRUE]
  /\ copyPos' = [copyPos EXCEPT ![f] = initOffset[f]]
  /\ progPos' = [progPos EXCEPT ![f] = initOffset[f]]
  /\ pc' = [pc EXCEPT ![f] = "copy"]
  /\ UNCHANGED <<cfgVars, available, srcAt, dstData, dirMade, links, rootAt,
                 read, srcOff, dstOff, diverged, initOffset, outcome, mainVars>>

\* Bytes moved by one read/write round of tokio::io::copy.
CopyBuf == 2

\* A write that cuts the file off after the bytes written.
WriteAtTruncating(d, pos, bs) ==
  [i \in 1..(pos + Len(bs)) |->
     IF i > pos THEN bs[i - pos]
     ELSE IF i <= Len(d) THEN d[i] ELSE 0]

\* A write of bs at offset pos of a file that is not truncated.
WriteAt(d, pos, bs) ==
  [i \in 1..Max(Len(d), pos + Len(bs)) |->
     IF i > pos /\ i <= pos + Len(bs) THEN bs[i - pos]
     ELSE IF i <= Len(d) THEN d[i] ELSE 0]

\* tokio::io::copy(&mut src_file, &mut dest_file): one round, or the end of file.
CopyStep(f) ==
  /\ Alive
  /\ pc[f] = "copy"
  /\ LET s == srcData[f]
         n == Min(CopyBuf, Len(s) - copyPos[f])
     IN IF n <= 0
        THEN /\ pc' = [pc EXCEPT ![f] = "remove"]
             /\ UNCHANGED <<dstData, copyPos, progPos>>
        ELSE /\ dstData' = [dstData EXCEPT ![f] =
                  WriteAt(@, copyPos[f], SubSeq(s, copyPos[f] + 1, copyPos[f] + n))]
             /\ copyPos' = [copyPos EXCEPT ![f] = @ + n]
             /\ progPos' = [progPos EXCEPT ![f] = @ + n]
             /\ UNCHANGED pc
  /\ UNCHANGED <<cfgVars, available, srcAt, dstExists, dirMade, links, rootAt,
                 read, srcOff, dstOff, diverged, initOffset, outcome, mainVars>>

\* A removal that takes the file away and still reports an error.
RemoveSourceThenErr(f) ==
  /\ Alive
  /\ pc[f] = "remove"
  /\ srcAt' = [srcAt EXCEPT ![f] = "task"]
  /\ Return(f, "Failure")
  /\ UNCHANGED <<cfgVars, dstExists, dstData, dirMade, links, rootAt,
                 detVars, copyPos, mainVars>>

\* tokio::fs::remove_file(src_path).await?; Ok(())
RemoveSource(f) ==
  /\ Alive
  /\ pc[f] = "remove"
  /\ srcAt' = [srcAt EXCEPT ![f] = "task"]
  /\ Return(f, "Success")
  /\ UNCHANGED <<cfgVars, dstExists, dstData, dirMade, links, rootAt,
                 detVars, copyPos, mainVars>>

\* A failure path on which the permit is not given back.
TaskFailLeaksPermit(f) ==
  /\ Alive
  /\ pc[f] \in IOPhase
  /\ pc' = [pc EXCEPT ![f] = "done"]
  /\ outcome' = [outcome EXCEPT ![f] = "Failure"]
  /\ UNCHANGED <<cfgVars, available, fsVars, detVars, copyPos, mainVars>>

\* Any `?` of move_file after the acquire returns the error of a failed operation.
TaskFail(f) ==
  /\ Alive
  /\ pc[f] \in IOPhase
  /\ Return(f, "Failure")
  /\ UNCHANGED <<cfgVars, fsVars, detVars, copyPos, mainVars>>

\* The source file disappears before the task has looked at it.
ExternalRemove(f) ==
  /\ Alive
  /\ pc[f] \in {"waiting", "start"}
  /\ srcAt[f] = "present"
  /\ srcAt' = [srcAt EXCEPT ![f] = "external"]
  /\ UNCHANGED <<cfgVars, available, dstExists, dstData, dirMade, links, rootAt,
                 detVars, taskVars, mainVars>>

\* ------------------------------------------------------------------ main
\* for entry in WalkDir::new(src_path) { let entry = entry?; ... }: an error entry.
WalkError ==
  /\ engine = "walk"
  /\ walkIdx <= Len(entries)
  /\ entries[walkIdx] = "error"
  /\ engine' = "exit"
  /\ result' = "enum_error"
  /\ UNCHANGED <<cfgVars, available, fsVars, detVars, taskVars,
                 walkIdx, tasks, awaitIdx, incomplete, warned, reported>>

\* A symlink entry: the warning is printed, then `continue`.
WalkSymlink ==
  /\ engine = "walk"
  /\ walkIdx <= Len(entries)
  /\ entries[walkIdx] = "symlink"
  /\ warned' = warned \cup {walkIdx}
  /\ walkIdx' = walkIdx + 1
  /\ UNCHANGED <<cfgVars, available, fsVars, detVars, taskVars,
                 engine, tasks, awaitIdx, incomplete, reported, result>>

\* A directory entry: `continue`.
WalkDirectory ==
  /\ engine = "walk"
  /\ walkIdx <= Len(entries)
  /\ entries[walkIdx] = "dir"
  /\ walkIdx' = walkIdx + 1
  /\ UNCHANGED <<cfgVars, available, fsVars, detVars, taskVars,
                 engine, tasks, awaitIdx, incomplete, warned, reported, result>>

\* A regular file: tasks.push((src_path, tokio::spawn(move_file(..)))).
WalkFile ==
  /\ engine = "walk"
  /\ walkIdx <= Len(entries)
  /\ entries[walkIdx] = "file"
  /\ tasks' = Append(tasks, walkIdx)
  /\ pc' = [pc EXCEPT ![walkIdx] = "waiting"]
  /\ walkIdx' = walkIdx + 1
  /\ UNCHANGED <<cfgVars, available, fsVars, detVars, outcome, copyPos,
                 engine, awaitIdx, incomplete, warned, reported, result>>

\* The walk is over: let mut incomplete = false.
WalkEnd ==
  /\ engine = "walk"
  /\ walkIdx > Len(entries)
  /\ engine' = "await"
  /\ incomplete' = FALSE
  /\ UNCHANGED <<cfgVars, available, fsVars, detVars, taskVars,
                 walkIdx, tasks, awaitIdx, warned, reported, result>>

\* for (path, task) in tasks { if let Err(e) = task.await? { ... } }: one task.
AwaitTask ==
  /\ engine = "await"
  /\ awaitIdx <= Len(tasks)
  /\ LET f == tasks[awaitIdx]
     IN /\ pc[f] = "done"
        /\ IF outcome[f] = "Failure"
           THEN /\ incomplete' = TRUE
                /\ reported' = reported \cup {f}
           ELSE UNCHANGED <<incomplete, reported>>
  /\ awaitIdx' = awaitIdx + 1
  /\ UNCHANGED <<cfgVars, available, fsVars, detVars, taskVars,
                 engine, walkIdx, tasks, warned, result>>

\* A decision that goes on to the cleanup whatever `incomplete` says.
DecideIgnoringFailures ==
  /\ engine = "await"
  /\ awaitIdx > Len(tasks)
  /\ engine' = "cleanup"
  /\ UNCHANGED <<cfgVars, available, fsVars, detVars, taskVars,
                 walkIdx, tasks, awaitIdx, incomplete, warned, reported, result>>

\* if incomplete { return Err(..) }
Decide ==
  /\ engine = "await"
  /\ awaitIdx > Len(tasks)
  /\ IF incomplete
     THEN /\ engine' = "exit"
          /\ result' = "incomplete"
     ELSE /\ engine' = "cleanup"
          /\ UNCHANGED result
  /\ UNCHANGED <<cfgVars, available, fsVars, detVars, taskVars,
                 walkIdx, tasks, awaitIdx, incomplete, warned, reported>>

\* src_path.is_file() and src_path.is_dir(), as the cleanup sees them.
IsFileNow == srcIsFile /\ srcAt[1] = "present"
IsDirNow == ~srcIsFile /\ rootAt = "present"

\* remove_file(src_path) or remove_dir_all(src_path), then "move complete".
Cleanup ==
  /\ engine = "cleanup"
  /\ IF IsFileNow
     THEN /\ srcAt' = [srcAt EXCEPT ![1] = "engine"]
          /\ UNCHANGED <<links, rootAt>>
     ELSE IF IsDirNow
     THEN /\ rootAt' = "engine"
          /\ links' = {}
          /\ srcAt' = [f \in Files |-> IF srcAt[f] = "present" THEN "engine" ELSE srcAt[f]]
     ELSE UNCHANGED <<srcAt, links, rootAt>>
  /\ engine' = "exit"
  /\ result' = "ok"
  /\ UNCHANGED <<cfgVars, available, dstExists, dstData, dirMade, detVars, taskVars,
                 walkIdx, tasks, awaitIdx, incomplete, warned, reported>>

\* The removal fails: its `?` returns the error; remove_dir_all may have
\* removed part of the tree before it failed.
CleanupFail ==
  /\ engine = "cleanup"
  /\ IsFileNow \/ IsDirNow
  /\ \E gone \in SUBSET links : links' = links \ gone
  /\ engine' = "exit"
  /\ result' = "cleanup_error"
  /\ UNCHANGED <<cfgVars, available, srcAt, dstExists, dstData, dirMade, rootAt,
                 detVars, taskVars, walkIdx, tasks, awaitIdx, incomplete, warned, reported>>

\* ------------------------------------------------------------------- Next
\* The steps of move_file when no operation fails.
TaskProgress(f) ==
  \/ Acquire(f)
  \/ CheckSource(f)
  \/ MakeDirs(f)
  \/ ProbeDest(f)
  \/ DetectStep(f)
  \/ OpenSeek(f)
  \/ CopyStep(f)
  \/ RemoveSource(f)

TaskStep(f) ==
  \/ TaskProgress(f)
  \/ TaskFail(f)

MainStep ==
  \/ WalkError
  \/ WalkSymlink
  \/ WalkDirectory
  \/ WalkFile
  \/ WalkEnd
  \/ AwaitTask
  \/ Decide
  \/ Cleanup
  \/ CleanupFail

Next ==
  \/ \E f \in Files : TaskStep(f)
  \/ \E f \in Files : ExternalRemove(f)
  \/ MainStep

Spec == Init /\ [][Next]_vars

\* The tokio runtime polls every task that can run, and main itself runs.
FairSpec ==
  /\ Spec
  /\ WF_vars(MainStep)
  /\ \A f \in Files : WF_vars(TaskProgress(f))

\* ----------------------------------------------------------------- claims
\* Sizes of the two files as the detector measured them: the destination is
\* not written before the copy phase.
MinSize0(f) == Min(Len(srcData[f]), Len(dst0Data[f]))

\* The detector ran for f and has returned.
Detected(f) == pc[f] = "open" /\ dst0Exists[f]

\* C1: the offset the detector returns is the length of the longest common
\* prefix of the source and the destination as they were at detection time.
C1_DetectorReturnsLCP ==
  \A f \in Files : Detected(f) => initOffset[f] = LCP(srcData[f], dst0Data[f])

\* C2: once the detector has compared two differing bytes, it reads no further
\* chunk from either file and never increments the matched-byte counter again.
C2_StopOnFirstDivergence ==
  [][\A f \in Files :
       diverged[f] => /\ read'[f] = read[f]
                      /\ srcOff'[f] = srcOff[f]
                      /\ dstOff'[f] = dstOff[f]]_vars

\* C10: in every state of the detection loop and at its return, the matched
\* prefix length is at most min(source size, destination size).
C10_DetectorBound ==
  \A f \in Files : read[f] <= MinSize0(f) /\ initOffset[f] <= MinSize0(f)

\* C10 witness: a detection over several bytes returned the full smaller size.
C10_Witness ==
  \E f \in Files : /\ Detected(f)
                   /\ MinSize0(f) >= 2
                   /\ initOffset[f] = MinSize0(f)
                   /\ Len(srcData[f]) # Len(dst0Data[f])

\* The spawned tasks, the end of the run, and what became of the source.
Spawned == {tasks[i] : i \in 1..Len(tasks)}
RunEnded == engine = "exit"
WalkCompleted == result # "enum_error"
AllSuccess == \A f \in Spawned : outcome[f] = "Success"
AnyFailed == \E f \in Spawned : outcome[f] = "Failure"
\* The top-level source path no longer exists.
TopGone == IF srcIsFile THEN srcAt[1] # "present" ELSE rootAt # "present"
\* The program has deleted the top-level source.
TopDeleted == IF srcIsFile THEN srcAt[1] \in {"task", "engine"} ELSE rootAt = "engine"

\* C3: if every per-file transfer succeeds, then after the run the source path
\* no longer exists and every destination file equals the original content of
\* its source file, whatever the destination was before the run. Stated here
\* for the runs that report success and for the destinations that were not
\* longer than their source, where no stale tail can remain.
C3_SuccessMirrorsSource ==
  (RunEnded /\ result = "ok" /\ AllSuccess) =>
     /\ TopGone
     /\ \A f \in FileIdx(entries) :
          Len(dst0Data[f]) <= Len(srcData[f]) =>
             dstExists[f] /\ dstData[f] = srcData[f]

\* C4: for every symlink of the source no task is spawned, a warning is printed
\* once the walk has passed it, and the symlink stays in the source.
C4_SymlinksKept ==
  \A i \in SymlinkIdx(entries) :
     /\ i \notin Spawned
     /\ (walkIdx > i => i \in warned)
     /\ i \in links

\* The tasks between their acquire and their return.
Running == {f \in Files : pc[f] \in IOPhase}

\* C5: at most `capacity` tasks are in their file-I/O phase at any time, while
\* any number of tasks may be spawned and waiting.
C5_BoundedConcurrency == Cardinality(Running) <= capacity

\* C5 witness: the limit is reached and a further spawned task is waiting.
C5_Witness ==
  /\ capacity >= 1
  /\ Cardinality(Running) = capacity
  /\ \E f \in Files : pc[f] = "waiting"

\* C6: a task's source file is deleted if and only if its outcome is Success;
\* a failing task leaves the source file and the destination as they are, and
\* nothing changes them afterwards.
C6_PerFileDeletion ==
  /\ [](\A f \in Files : srcAt[f] \in {"task", "engine"} <=> outcome[f] = "Success")
  /\ [][\A f \in Files :
          outcome'[f] = "Failure" => /\ srcAt'[f] = srcAt[f]
                                     /\ dstExists'[f] = dstExists[f]
                                     /\ dstData'[f] = dstData[f]]_vars

\* C6 witness: one task failed after writing part of its destination and its
\* source is still there; another succeeded and its source is gone.
C6_Witness ==
  \E f, g \in Files :
     /\ outcome[f] = "Failure"
     /\ srcAt[f] = "present"
     /\ dstData[f] # dst0Data[f]
     /\ outcome[g] = "Success"
     /\ srcAt[g] = "task"

\* What C7 says of a run in which a task failed.
FailedRunKeepsSource ==
  AnyFailed => /\ ~TopDeleted
               /\ result = "incomplete"
               /\ \A g \in Spawned : outcome[g] = "Success" => srcAt[g] = "task"

\* C7 as stated, for a run whose walk completed and spawned a task: at the end
\* of the run the top-level source is deleted if and only if every outcome is
\* Success; if a task failed it still exists, the run fails, and the sources
\* of the tasks that succeeded are gone.
C7_TopLevelCleanupAsStated ==
  (RunEnded /\ WalkCompleted /\ Spawned # {}) =>
     /\ TopDeleted <=> AllSuccess
     /\ FailedRunKeepsSource

\* C7 amended: at the end of a run whose walk completed, the top-level source
\* is deleted if and only if every outcome is Success and the final removal did
\* not itself fail; a walk error deletes nothing at the top level; if a task
\* failed the program has not deleted the top-level source, the run fails, and
\* the sources of the tasks that succeeded are gone.
C7_TopLevelCleanup ==
  /\ (RunEnded /\ WalkCompleted) =>
        /\ TopDeleted <=> (AllSuccess /\ result # "cleanup_error")
        /\ FailedRunKeepsSource
  /\ rootAt = "engine" => result = "ok"

\* C7 witness: the run ended with one task failed and another succeeded.
C7_Witness ==
  /\ RunEnded
  /\ ~srcIsFile
  /\ rootAt = "present"
  /\ \E f, g \in Spawned : /\ outcome[f] = "Failure"
                           /\ outcome[g] = "Success"
                           /\ srcAt[g] = "task"

\* C8: every spawned task has reached its outcome before the engine decides
\* the overall result and before any top-level cleanup (for a concurrency
\* limit that lets tasks run).
C8_AllTasksFinishFirst ==
  (capacity >= 1 /\ (result # "none" \/ engine = "cleanup")) =>
     \A f \in Spawned : pc[f] = "done" /\ outcome[f] \in {"Success", "Failure"}

\* Each permit holder eventually finishes its task.
HoldersFinish == \A f \in Files : [](pc[f] \in IOPhase => <>(pc[f] = "done"))

\* C9: if each permit holder eventually finishes, every waiting task is
\* eventually granted a permit and the run ends, with an outcome for every
\* task it awaited.
C9_WaitersProgress ==
  HoldersFinish =>
     <>(RunEnded /\ (WalkCompleted => \A f \in Spawned : outcome[f] # "none"))

\* C11: during one detection the bytes read for comparison from each of the
\* two files, and the progress position of the checking phase, never exceed
\* the size of the smaller file.
C11_BoundedReReading ==
  \A f \in Files :
     /\ srcOff[f] <= MinSize0(f)
     /\ dstOff[f] <= MinSize0(f)
     /\ (pc[f] \in {"detect", "open"} => progPos[f] <= MinSize0(f))

\* C12: the permits left plus the permits held by running tasks equal the
\* capacity, with 0 <= available <= capacity; every exit path of a task gives
\* its permit back, so once all tasks have ended every permit is available.
C12_PermitConservation ==
  /\ available + Cardinality(Running) = capacity
  /\ 0 <= available
  /\ available <= capacity
  /\ (\A f \in Spawned : pc[f] = "done") => available = capacity

\* C12 witness: all tasks have ended, one by an error and one by success, and
\* every permit is back.
C12_Witness ==
  /\ capacity >= 1
  /\ \A f \in Spawned : pc[f] = "done"
  /\ \E f, g \in Spawned : outcome[f] = "Failure" /\ outcome[g] = "Success"
  /\ available = capacity

\* A step in which the task of f operates on its files: it creates the parent
\* directories, reads either file, creates or writes the destination, or
\* removes the source.
TaskTouchesFiles(f) ==
  \/ dirMade'[f] # dirMade[f]
  \/ srcOff'[f] # srcOff[f]
  \/ dstOff'[f] # dstOff[f]
  \/ dstExists'[f] # dstExists[f]
  \/ dstData'[f] # dstData[f]
  \/ copyPos'[f] # copyPos[f]
  \/ (srcAt'[f] = "task" /\ srcAt[f] # "task")

\* C13: a task operates on files only after it has acquired its permit, and it
\* still holds the permit when it removes the source file.
C13_AcquireBeforeIO ==
  [][\A f \in Files :
       /\ TaskTouchesFiles(f) => (pc[f] \in IOPhase /\ available < capacity)
       /\ (srcAt'[f] = "task" /\ srcAt[f] # "task") =>
             (pc[f] = "remove" /\ available' = available + 1)]_vars

\* C13 witness: one task has gone through all its file operations while
\* another, still waiting for a permit, has touched nothing.
C13_Witness ==
  \E f, g \in Files :
     /\ srcAt[f] = "task"
     /\ dirMade[f]
     /\ pc[g] = "waiting"
     /\ ~dirMade[g]
     /\ dstData[g] = dst0Data[g]

\* C14: the detection loop terminates and the task proceeds to the copy phase:
\* while the process runs, a task inside the loop always has an iteration that
\* changes its state (each such iteration consumes bytes of a finite file, so
\* the loop ends unless it can spin in place).
C14_DetectorTerminates ==
  \A f \in Files : (pc[f] = "detect" /\ Alive) => ENABLED <<DetectStep(f)>>_vars

\* The copy phase of f has begun (and has not been cut short before it began).
CopyBegun(f) == pc[f] \in {"copy", "remove"} \/ outcome[f] = "Success"

\* C15: with k the offset the detector returned (0 when the destination did
\* not exist), the copy starts both cursors at k and writes source[k..size) to
\* the same destination indexes; the destination bytes below k and from the
\* source size on are left as they were: the destination is never truncated.
C15_CopyWriteSet ==
  \A f \in Files :
     /\ ~dst0Exists[f] => initOffset[f] = 0
     /\ CopyBegun(f) =>
          /\ initOffset[f] <= copyPos[f]
          /\ copyPos[f] <= Len(srcData[f])
          /\ Len(dstData[f]) = Max(Len(dst0Data[f]), copyPos[f])
          /\ \A i \in 1..Len(dstData[f]) :
               dstData[f][i] = IF i > initOffset[f] /\ i <= copyPos[f]
                               THEN srcData[f][i]
                               ELSE dst0Data[f][i]
          /\ pc[f] \in {"remove", "done"} => copyPos[f] = Len(srcData[f])

\* C15 witness: a copy resumed at k >= 1 has finished over a destination that
\* was longer than the source, and wrote at least one byte.
C15_Witness ==
  \E f \in Files :
     /\ outcome[f] = "Success"
     /\ initOffset[f] >= 1
     /\ initOffset[f] < Len(srcData[f])
     /\ Len(dst0Data[f]) > Len(srcData[f])


\* C16: when the tree walk reports an error at an entry, the run ends in
\* failure, the top-level source is not deleted, and no transfer task has been
\* started or has modified or deleted a source or destination file.  Stated
\* for the effects on the file system only (no source file deleted, no
\* destination directory or file created or written) and for runs with at
\* least one permit.
C16_EnumErrorBeforeAnyJob ==
  (result = "enum_error" /\ capacity >= 1) =>
     /\ ~TopDeleted
     /\ \A f \in Files :
          /\ srcAt[f] # "task"
          /\ ~dirMade[f]
          /\ dstExists[f] = dst0Exists[f]
          /\ dstData[f] = dst0Data[f]


\* C17: a per-file failure is reported only after all transfer tasks have
\* finished: no failure message has been emitted while a spawned task is
\* still waiting or running.  Stated for runs with at least one permit.
C17_ReportAfterAllFinish ==
  (reported # {} /\ capacity >= 1) => \A f \in Spawned : pc[f] = "done"


\* The task of f found (or will find) its source missing at its start.
SourceMissing(f) == srcAt[f] = "external"

\* C18: a task that holds its permit and finds its source path missing yields
\* Failure and releases the permit, and the step changes nothing in the file
\* system; afterwards the destination's parent directories are not created,
\* the destination file is as it was and the task has deleted nothing.
C18_SourceMissingNoEffect ==
  [][\A f \in Files :
       /\ (pc[f] = "start" /\ SourceMissing(f) /\ pc'[f] # "start") =>
             /\ pc'[f] = "done"
             /\ outcome'[f] = "Failure"
             /\ available < capacity
             /\ available' = available + 1
             /\ fsVars' = fsVars
       /\ (pc'[f] = "done" /\ SourceMissing(f)') =>
             /\ outcome'[f] = "Failure"
             /\ ~dirMade'[f]
             /\ dstExists'[f] = dst0Exists[f]
             /\ dstData'[f] = dst0Data[f]]_vars

\* C18 witness: with one permit, a task has failed on a missing source and a
\* later task has taken the released permit and succeeded.
C18_Witness ==
  \E f, g \in Spawned :
     /\ capacity = 1
     /\ f < g
     /\ pc[f] = "done" /\ SourceMissing(f) /\ outcome[f] = "Failure"
     /\ ~dirMade[f]
     /\ outcome[g] = "Success"
     /\ available = capacity

====
